---- MODULE Spec2Model ----
(***************************************************************************)
(* A model of generate_resume.py: the LaTeX escaper, the inline-link       *)
(* translation of achievement descriptions, the section formatters, the    *)
(* template filling of generate_latex_resume and the load / fill / write / *)
(* compile pipeline of main.                                               *)
(*                                                                         *)
(* A Python str is a sequence of one-character strings, so that            *)
(* str.replace, re.sub and re.findall are computed character by character  *)
(* as the interpreter computes them.  Python's None is the value None.     *)
(***************************************************************************)
EXTENDS Integers, Sequences, FiniteSets, TLC

VARIABLES
    pc,         \* position of the running function or of main
    arg,        \* the argument of the function under study
    result,     \* its return value
    inputFile,  \* the YAML input file as main finds it
    template,   \* template.tex as generate_latex_resume finds it
    outDirOK,   \* whether OUTPUT_DIR exists when the markup file is opened
    data,       \* the loaded resume data
    filled,     \* filled_template, the working template string
    prev,       \* filled_template before the last substitution
    k,          \* number of placeholder substitutions done
    val,        \* the value substituted last
    tex,        \* content of the markup output file (NoFile when absent)
    texBefore,  \* content of the markup output file when the run started
    files,      \* names of the other files present in OUTPUT_DIR
    latex_file, \* the name generate_latex_resume returned
    cwd,        \* the process's working directory
    current_dir, \* compile_latex's saved working directory
    runs,       \* number of invocations of pdflatex
    outcome,    \* what the pdflatex invocation did
    pdfFile,    \* the value compile_latex returned
    raisedAt,   \* the stage at which an exception reached main's handler
    exitStatus  \* the process's exit status (-1 while running)

funVars == <<pc, arg, result>>
mainVars == <<inputFile, template, outDirOK, data, filled, prev, k, val, tex,
              texBefore, files, latex_file, cwd, current_dir, runs, outcome,
              pdfFile, raisedAt, exitStatus>>
vars == <<pc, arg, result, inputFile, template, outDirOK, data, filled, prev,
          k, val, tex, texBefore, files, latex_file, cwd, current_dir, runs,
          outcome, pdfFile, raisedAt, exitStatus>>

----------------------------------------------------------------------------
(* Bounds of the model.                                                    *)

MaxLen == 3
MaxFrags == 3
MaxLinks == 11
MaxDetail == 4
MaxPubs == 3

----------------------------------------------------------------------------
(* Python values and str operations.                                       *)

None == <<"<None>">>

\* the content of a file that does not exist
NoFile == <<"<no file>">>

BS == "\\"

RECURSIVE Strings(_, _)
Strings(alphabet, n) ==
    IF n = 0 THEN {<<>>}
    ELSE LET shorter == Strings(alphabet, n - 1)
         IN  shorter \cup {Append(s, c) : s \in shorter, c \in alphabet}

RECURSIVE Concat(_)
Concat(parts) ==
    IF parts = <<>> THEN <<>> ELSE Head(parts) \o Concat(Tail(parts))

\* s[i:].startswith(p), with 1-based i
StartsWithAt(s, i, p) ==
    /\ i + Len(p) - 1 <= Len(s)
    /\ \A j \in 1..Len(p) : s[i + j - 1] = p[j]

Contains(s, p) == \E i \in 1..(Len(s) + 1) : StartsWithAt(s, i, p)

\* the least element of a non-empty set of numbers
Least(S) == CHOOSE x \in S : \A y \in S : x <= y

\* s.find(p, i - 1) + 1: the first position >= i where p occurs in s, 0 when
\* there is none
Find(s, p, i) ==
    LET at == {j \in i..Len(s) : StartsWithAt(s, j, p)}
    IN  IF at = {} THEN 0 ELSE Least(at)

RECURSIVE replaceFrom(_, _, _, _)
replaceFrom(s, old, new, i) ==
    LET at == Find(s, old, i)
    IN  IF at = 0 THEN SubSeq(s, i, Len(s))
        ELSE SubSeq(s, i, at - 1) \o new
               \o replaceFrom(s, old, new, at + Len(old))

\* str.replace(old, new, 1): the leftmost occurrence only
replaceFirstOnly(s, old, new) ==
    LET at == Find(s, old, 1)
    IN  IF at = 0 THEN s
        ELSE SubSeq(s, 1, at - 1) \o new \o SubSeq(s, at + Len(old), Len(s))

\* str.replace(old, new) with a non-empty old and no count: every
\* non-overlapping occurrence, leftmost first
replace(s, old, new) == replaceFrom(s, old, new, 1)

\* the first position >= i of s that holds character c, 0 when there is none
IndexOf(s, c, i) ==
    LET at == {j \in i..Len(s) : s[j] = c}
    IN  IF at = {} THEN 0 ELSE Least(at)

\* str(n) of a natural number
Digits == <<"0", "1", "2", "3", "4", "5", "6", "7", "8", "9">>

RECURSIVE str(_)
str(n) ==
    IF n < 10 THEN <<Digits[n + 1]>>
    ELSE str(n \div 10) \o <<Digits[(n % 10) + 1]>>

----------------------------------------------------------------------------
(* escape_latex                                                            *)

\* the dict `replacements`, in insertion order (the order the loop visits)
replacements ==
    << <<"%", <<BS, "%">> >>,
       <<"$", <<BS, "$">> >>,
       <<"#", <<BS, "#">> >>,
       <<"_", <<BS, "_">> >>,
       <<"{", <<BS, "{">> >>,
       <<"}", <<BS, "}">> >>,
       <<"~", <<"\\", "t", "e", "x", "t", "a", "s", "c", "i", "i", "t", "i", "l", "d", "e", "{", "}">> >>,
       <<"^", <<"\\", "t", "e", "x", "t", "a", "s", "c", "i", "i", "c", "i", "r", "c", "u", "m", "{", "}">> >> >>

\* the replacements with the two braces moved after the tilde and the caret
replacementsBracesLast ==
    << replacements[1], replacements[2], replacements[3], replacements[4],
       replacements[7], replacements[8], replacements[5], replacements[6] >>

RECURSIVE applyReplacements(_, _)
applyReplacements(text, reps) ==
    IF reps = <<>> THEN text
    ELSE applyReplacements(replace(text, <<Head(reps)[1]>>, Head(reps)[2]),
                           Tail(reps))

\* escape_latex looping over replacementsBracesLast
escape_latex_BracesLast(text) ==
    IF text = None THEN <<>>
    ELSE LET t1 == replace(text, <<"&">>, <<BS, "&">>)
             t2 == replace(t1, <<BS, BS, "&">>, <<BS, "&">>)
         IN  applyReplacements(t2, replacementsBracesLast)

escape_latex(text) ==
    IF text = None THEN <<>>
    ELSE LET t1 == replace(text, <<"&">>, <<BS, "&">>)
             t2 == replace(t1, <<BS, BS, "&">>, <<BS, "&">>)
         IN  applyReplacements(t2, replacements)

----------------------------------------------------------------------------
(* The inline-link translation of an achievement's description            *)
(* (format_experience).                                                    *)

HREF_OPEN == <<"\\", "h", "r", "e", "f", "{">>

HREFPLACEHOLDER == <<"H", "R", "E", "F", "P", "L", "A", "C", "E", "H", "O", "L", "D", "E", "R">>

href(url, text) == HREF_OPEN \o url \o <<"}", "{">> \o text \o <<"}">>

\* the match of \[([^\]]+)\]\(([^)]+)\) that starts at position i, if any:
\* group 1 runs to the first "]" and group 2 to the first ")", each non-empty
linkMatchAt(s, i) ==
    LET j == IndexOf(s, "]", i + 1)
        m == IF j > 0 THEN IndexOf(s, ")", j + 2) ELSE 0
    IN  IF /\ s[i] = "["
           /\ j > i + 1
           /\ j + 1 <= Len(s)
           /\ s[j + 1] = "("
           /\ m > j + 2
        THEN [ok |-> TRUE, text |-> SubSeq(s, i + 1, j - 1),
              url |-> SubSeq(s, j + 2, m - 1), end |-> m]
        ELSE [ok |-> FALSE, text |-> <<>>, url |-> <<>>, end |-> i]

\* re.sub(r'\[([^\]]+)\]\(([^)]+)\)', r'\\href{\2}{\1}', s), from position i
RECURSIVE subLinks(_, _)
subLinks(s, i) ==
    LET at == {j \in i..Len(s) : linkMatchAt(s, j).ok}
    IN  IF at = {} THEN SubSeq(s, i, Len(s))
        ELSE LET mt == linkMatchAt(s, Least(at))
             IN  SubSeq(s, i, Least(at) - 1) \o href(mt.url, mt.text)
                   \o subLinks(s, mt.end + 1)

\* the first position a in b..(j - 2) where \& starts, 0 when there is none
escapedAmpIn(s, b, j) ==
    LET at == {a \in b..(j - 2) : s[a] = BS /\ s[a + 1] = "&"}
    IN  IF at = {} THEN 0 ELSE Least(at)

\* the end of the match of \\href\{([^}]*?)\\&([^}]*?)\} that starts at
\* position i (the first "}" after the command's "{"), 0 when there is none
hrefAmpMatchEnd(s, i) ==
    LET b == i + Len(HREF_OPEN)
        j == IF StartsWithAt(s, i, HREF_OPEN) THEN IndexOf(s, "}", b) ELSE 0
    IN  IF j > 0 /\ escapedAmpIn(s, b, j) > 0 THEN j ELSE 0

\* the end of the match of \\href\{[^}]*\}\{[^}]*\} that starts at position
\* i, 0 when there is none
hrefMatchEnd(s, i) ==
    LET b == i + Len(HREF_OPEN)
        j == IF StartsWithAt(s, i, HREF_OPEN) THEN IndexOf(s, "}", b) ELSE 0
    IN  IF j > 0 /\ j + 1 <= Len(s) /\ s[j + 1] = "{"
        THEN IndexOf(s, "}", j + 2) ELSE 0

\* re.sub(r'\\href\{([^}]*?)\\&([^}]*?)\}', r'\\href{\1&\2}', s), from
\* position i: in the first brace group of an href command the first \&
\* loses its backslash
RECURSIVE subHrefAmp(_, _)
subHrefAmp(s, i) ==
    LET at == {p \in i..Len(s) : hrefAmpMatchEnd(s, p) > 0}
    IN  IF at = {} THEN SubSeq(s, i, Len(s))
        ELSE LET p == Least(at)
                 b == p + Len(HREF_OPEN)
                 j == hrefAmpMatchEnd(s, p)
                 a == escapedAmpIn(s, b, j)
             IN  SubSeq(s, i, p - 1) \o HREF_OPEN \o SubSeq(s, b, a - 1)
                   \o <<"&">> \o SubSeq(s, a + 2, j - 1) \o <<"}">>
                   \o subHrefAmp(s, j + 1)

\* re.findall(r'\\href\{[^}]*\}\{[^}]*\}', s), from position i
RECURSIVE findallHref(_, _)
findallHref(s, i) ==
    LET at == {p \in i..Len(s) : hrefMatchEnd(s, p) > 0}
    IN  IF at = {} THEN <<>>
        ELSE LET p == Least(at)
             IN  <<SubSeq(s, p, hrefMatchEnd(s, p))>>
                   \o findallHref(s, hrefMatchEnd(s, p) + 1)

\* for i, match in enumerate(href_matches):
\*     description = description.replace(match, f"HREFPLACEHOLDER{i}")
RECURSIVE protectHrefs(_, _, _)
protectHrefs(description, href_matches, n) ==
    IF n > Len(href_matches) THEN description
    ELSE protectHrefs(replace(description, href_matches[n],
                              HREFPLACEHOLDER \o str(n - 1)),
                      href_matches, n + 1)

\* for i, match in enumerate(href_matches):
\*     description = description.replace(f"HREFPLACEHOLDER{i}", match)
RECURSIVE restoreHrefs(_, _, _)
restoreHrefs(description, href_matches, n) ==
    IF n > Len(href_matches) THEN description
    ELSE restoreHrefs(replace(description, HREFPLACEHOLDER \o str(n - 1),
                              href_matches[n]),
                      href_matches, n + 1)

\* what format_experience makes of achievement["description"]
achievement_description(description) ==
    LET linked == subLinks(description, 1)
        cleaned == subHrefAmp(linked, 1)
        href_matches == findallHref(cleaned, 1)
        protected == protectHrefs(cleaned, href_matches, 1)
        escaped == escape_latex(protected)
    IN  restoreHrefs(escaped, href_matches, 1)

----------------------------------------------------------------------------
(* The section formatters.  A record (a Python dict) is a function from    *)
(* its keys; a key the record lacks is outside its DOMAIN and looking it   *)
(* up raises KeyError.                                                     *)

Has(rec, key) == key \in DOMAIN rec

\* some key of keys is missing from rec: rec[key] raises KeyError
Lacks(rec, keys) == \E key \in keys : ~Has(rec, key)

\* bool(v) of a str or None
Truthy(v) == v # None /\ v # <<>>

\* key in rec and rec[key]
HasTruthy(rec, key) == Has(rec, key) /\ Truthy(rec[key])

\* sep.join(parts)
RECURSIVE join(_, _)
join(sep, parts) ==
    IF parts = <<>> THEN <<>>
    ELSE IF Len(parts) = 1 THEN parts[1]
         ELSE parts[1] \o sep \o join(sep, Tail(parts))

VERT == <<" ", "$", "\\", "v", "e", "r", "t", "$", " ">>

\* format_contact_links
format_contact_links(links) ==
    join(VERT, [i \in 1..Len(links) |->
                  href(links[i]["url"], escape_latex(links[i]["name"]))])

format_contact_links_raises(links) ==
    \E i \in 1..Len(links) : Lacks(links[i], {"name", "url"})

\* one text field of a skill group: ampersands escaped, then escape_latex,
\* then the double-escape guard again
skill_text(text) ==
    replace(escape_latex(replace(text, <<"&">>, <<BS, "&">>)),
            <<BS, BS, "&">>, <<BS, "&">>)

\* format_skills
format_skills(skills) ==
    Concat([i \in 1..Len(skills) |->
              <<" ", " ", "\\", "r", "e", "s", "u", "m", "e", "S", "u", "b", "h", "e", "a", "d", "i", "n", "g", "\n">>
                \o <<" ", " ", " ", " ", "{">> \o skill_text(skills[i]["category"]) \o <<"}", "{", "}", "\n">>
                \o <<" ", " ", " ", " ", "{">> \o skill_text(skills[i]["items"]) \o <<"}", "{", "}", "\n">>])

format_skills_raises(skills) ==
    \E i \in 1..Len(skills) : Lacks(skills[i], {"category", "items"})

\* company_text of one experience entry
company_text(exp) ==
    LET company == escape_latex(exp["company"])
    IN  IF HasTruthy(exp, "company_description")
        THEN IF HasTruthy(exp, "company_url")
             THEN href(exp["company_url"], company)
                    \o <<"{", ":", " ">> \o escape_latex(exp["company_description"]) \o <<"}">>
             ELSE company \o <<"{", ":", " ">>
                    \o escape_latex(exp["company_description"]) \o <<"}">>
        ELSE IF HasTruthy(exp, "company_url")
             THEN href(exp["company_url"], company)
             ELSE company

\* the \resumeItem lines of one achievement
achievement_item(achievement) ==
    <<" ", " ", " ", " ", " ", " ", "\\", "r", "e", "s", "u", "m", "e", "I", "t", "e", "m", "{">> \o escape_latex(achievement["name"]) \o <<"}", "\n">>
      \o <<" ", " ", " ", " ", " ", " ", "{">> \o achievement_description(achievement["description"]) \o <<"}", "\n">>

\* the blocks format_experience appends for one entry
experience_entry(exp) ==
    <<" ", " ", "\\", "r", "e", "s", "u", "m", "e", "S", "u", "b", "h", "e", "a", "d", "i", "n", "g", "\n">>
      \o <<" ", " ", "{">> \o escape_latex(exp["title"]) \o <<"}", "{">>
      \o exp["date_start"] \o <<" ", "-", " ">> \o exp["date_end"] \o <<"}", "\n">>
      \o <<" ", " ", "{">> \o company_text(exp) \o <<"}", "{">> \o escape_latex(exp["location"]) \o <<"}", "\n">>
      \o (IF Has(exp, "achievements") /\ exp["achievements"] # <<>>
          THEN <<" ", " ", " ", " ", "\\", "r", "e", "s", "u", "m", "e", "I", "t", "e", "m", "L", "i", "s", "t", "S", "t", "a", "r", "t", "\n">>
                 \o Concat([j \in 1..Len(exp["achievements"]) |->
                              achievement_item(exp["achievements"][j])])
                 \o <<" ", " ", " ", " ", " ", " ", "\\", "r", "e", "s", "u", "m", "e", "I", "t", "e", "m", "L", "i", "s", "t", "E", "n", "d", "\n", "\n">>
          ELSE <<>>)

\* format_experience
format_experience(experience_items) ==
    Concat([i \in 1..Len(experience_items) |->
              experience_entry(experience_items[i])])

format_experience_raises(experience_items) ==
    \E i \in 1..Len(experience_items) :
        LET exp == experience_items[i]
        IN  \/ Lacks(exp, {"title", "location", "company", "date_start", "date_end"})
            \/ /\ Has(exp, "achievements")
               /\ \E j \in 1..Len(exp["achievements"]) :
                     Lacks(exp["achievements"][j], {"name", "description"})

\* format_education
format_education(education_items) ==
    Concat([i \in 1..Len(education_items) |->
              LET edu == education_items[i]
              IN  <<" ", " ", " ", " ", "\\", "r", "e", "s", "u", "m", "e", "S", "u", "b", "h", "e", "a", "d", "i", "n", "g", "\n">>
                    \o <<" ", " ", " ", " ", " ", " ", "{">> \o escape_latex(edu["degree"]) \o <<"}", "{">>
                    \o edu["date_start"] \o <<" ", "-", "-", " ">> \o edu["date_end"] \o <<"}", "\n">>
                    \o <<" ", " ", " ", " ", " ", " ", "{">> \o escape_latex(edu["institution"]) \o <<"}", "{">>
                    \o escape_latex(edu["location"]) \o <<"}", "\n">>])

format_education_raises(education_items) ==
    \E i \in 1..Len(education_items) :
        Lacks(education_items[i],
              {"degree", "institution", "location", "date_start", "date_end"})

\* s.split(sep) with a one-character sep
RECURSIVE split(_, _)
split(s, sep) ==
    LET at == IndexOf(s, sep, 1)
    IN  IF at = 0 THEN <<s>>
        ELSE <<SubSeq(s, 1, at - 1)>> \o split(SubSeq(s, at + 1, Len(s)), sep)

Whitespace == {" ", "\t", "\n", "\r", "\f"}

\* s.strip()
strip(s) ==
    LET keep == {i \in 1..Len(s) : s[i] \notin Whitespace}
    IN  IF keep = {} THEN <<>>
        ELSE SubSeq(s, Least(keep), CHOOSE i \in keep : \A j \in keep : j <= i)

\* org_detail.split(':')[0].strip()
detail_first_part(org_detail) == strip(split(org_detail, ":")[1])

\* org_detail.split(':')[-1].strip()
detail_link_text(org_detail) ==
    strip(split(org_detail, ":")[Len(split(org_detail, ":"))])

\* organization_text of one award
organization_text(award) ==
    LET organization == escape_latex(award["organization"])
    IN  IF HasTruthy(award, "organization_detail")
        THEN LET org_detail == escape_latex(award["organization_detail"])
             IN  IF HasTruthy(award, "organization_url")
                 THEN organization \o VERT
                        \o href(award["organization_url"], detail_link_text(org_detail))
                 ELSE organization \o VERT \o org_detail
        ELSE organization

\* format_awards
format_awards(awards_items) ==
    Concat([i \in 1..Len(awards_items) |->
              LET award == awards_items[i]
              IN  <<" ", " ", " ", " ", "\\", "r", "e", "s", "u", "m", "e", "S", "u", "b", "h", "e", "a", "d", "i", "n", "g", "\n">>
                    \o <<" ", " ", " ", " ", " ", " ", "{">> \o escape_latex(award["title"]) \o <<"}", "{">>
                    \o award["date"] \o <<"}", "\n">>
                    \o <<" ", " ", " ", " ", " ", " ", "{">> \o organization_text(award) \o <<"}", "{">>
                    \o escape_latex(award["location"]) \o <<"}", "\n">>])

format_awards_raises(awards_items) ==
    \E i \in 1..Len(awards_items) :
        Lacks(awards_items[i], {"title", "organization", "location", "date"})

\* format_certifications
format_certifications(cert_items) ==
    Concat([i \in 1..Len(cert_items) |->
              LET cert == cert_items[i]
              IN  <<" ", " ", " ", " ", "\\", "r", "e", "s", "u", "m", "e", "S", "u", "b", "h", "e", "a", "d", "i", "n", "g", "\n">>
                    \o <<" ", " ", " ", " ", " ", " ", "{">> \o escape_latex(cert["title"]) \o <<"}", "{">>
                    \o cert["date"] \o <<"}", "\n">>
                    \o <<" ", " ", " ", " ", " ", " ", "{", "\\", "h", "r", "e", "f", "{">> \o cert["url"] \o <<"}", "{", "C", "e", "r", "t", "i", "f", "i", "c", "a", "t", "e", "}", "}", "{">>
                    \o escape_latex(cert["organization"]) \o <<"}", "\n">>])

format_certifications_raises(cert_items) ==
    \E i \in 1..Len(cert_items) :
        Lacks(cert_items[i], {"title", "organization", "date", "url"})

\* the character U+0060 (grave accent), which a TLA+ string cannot hold
BACKQUOTE == "<backquote>"

VSPACE == <<" ", " ", "\\", "v", "s", "p", "a", "c", "e", "{", "5", "p", "t", "}", "\n">>

\* the \item line of one publication
publication_item(pub) ==
    <<" ", " ", "\\", "i", "t", "e", "m", "{">>
      \o replace(escape_latex(pub["authors"]),
                 <<"M", ".", " ", "G", "h", "o", "r", "b", "a", "n", "d", "o", "o", "s", "t">>,
                 <<"\\", "t", "e", "x", "t", "b", "f", "{", "M", ".", " ", "G", "h", "o", "r", "b", "a", "n", "d", "o", "o", "s", "t", "}">>)
      \o <<",", " ", BACKQUOTE, BACKQUOTE>> \o escape_latex(pub["title"]) \o <<"'", "'", ",", " ">>
      \o escape_latex(pub["venue"]) \o <<",", " ">> \o pub["year"]
      \o <<".", " ", "\\", "h", "r", "e", "f", "{">> \o pub["url"] \o <<"}", "{", "l", "i", "n", "k", "}", "}", "\n">>

\* format_publications: the spacing follows every entry that differs (as a
\* dict, by value) from the last entry
format_publications(pub_items) ==
    Concat([i \in 1..Len(pub_items) |->
              publication_item(pub_items[i])
                \o (IF pub_items[i] # pub_items[Len(pub_items)]
                    THEN VSPACE ELSE <<>>)])

format_publications_raises(pub_items) ==
    \E i \in 1..Len(pub_items) :
        Lacks(pub_items[i], {"authors", "title", "venue", "year", "url"})

----------------------------------------------------------------------------
(* generate_latex_resume, compile_latex and main.                          *)

LOWER == <<"a", "b", "c", "d", "e", "f", "g", "h", "i", "j", "k", "l", "m", "n", "o", "p", "q", "r", "s", "t", "u", "v", "w", "x", "y", "z">>

UPPER == <<"A", "B", "C", "D", "E", "F", "G", "H", "I", "J", "K", "L", "M", "N", "O", "P", "Q", "R", "S", "T", "U", "V", "W", "X", "Y", "Z">>

upper(c) ==
    IF \E i \in 1..Len(LOWER) : LOWER[i] = c
    THEN UPPER[CHOOSE i \in 1..Len(LOWER) : LOWER[i] = c] ELSE c

lower(c) ==
    IF \E i \in 1..Len(UPPER) : UPPER[i] = c
    THEN LOWER[CHOOSE i \in 1..Len(UPPER) : UPPER[i] = c] ELSE c

\* w.capitalize()
capitalize(w) ==
    [i \in 1..Len(w) |-> IF i = 1 THEN upper(w[i]) ELSE lower(w[i])]

\* s.split(): the maximal runs of non-whitespace characters
RECURSIVE words(_)
words(s) ==
    LET keep == {i \in 1..Len(s) : s[i] \notin Whitespace}
    IN  IF keep = {} THEN <<>>
        ELSE LET a == Least(keep)
                 gaps == {i \in a..Len(s) : s[i] \in Whitespace}
                 b == IF gaps = {} THEN Len(s) + 1 ELSE Least(gaps)
             IN  <<SubSeq(s, a, b - 1)>> \o words(SubSeq(s, b, Len(s)))

\* Python's None as the loaded document (an empty YAML file)
NoData == [py_none |-> TRUE]

\* bool(data) of a dict or None
DataTruthy(doc) == doc # NoData /\ DOMAIN doc # {}

\* the Firstname_Lastname base name, or fallback when the name has fewer
\* than two words or is absent
output_name(doc, fallback) ==
    IF DataTruthy(doc) /\ Has(doc, "name")
    THEN LET name_parts == words(doc["name"])
         IN  IF Len(name_parts) >= 2
             THEN capitalize(name_parts[1]) \o <<"_">>
                    \o capitalize(name_parts[Len(name_parts)])
             ELSE fallback
    ELSE fallback

\* data['name'].split() raises AttributeError when the name is None
output_name_raises(doc) ==
    DataTruthy(doc) /\ Has(doc, "name") /\ doc["name"] = None

RESUME == <<"r", "e", "s", "u", "m", "e">>

DOT_TEX == <<".", "t", "e", "x">>

default_output_name(doc) == output_name(doc, RESUME) \o DOT_TEX

\* os.path.splitext(os.path.basename(name))[0] of a name without directory
splitext_base(name) ==
    LET dots == {i \in 2..Len(name) : name[i] = "."}
    IN  IF dots = {} THEN name
        ELSE SubSeq(name, 1, (CHOOSE i \in dots : \A j \in dots : j <= i) - 1)

\* load_resume_data: a missing file, or YAML that does not parse, raises;
\* otherwise the parsed document (with or without --- front matter markers)
load_resume_data_raises(file) ==
    file.kind = "missing" \/ file.yaml = "bad"

load_resume_data(file) == file.data

\* the placeholders of the template, in the order they are substituted
placeholders ==
    << <<"N", "A", "M", "E">>,
       <<"P", "H", "O", "N", "E">>,
       <<"E", "M", "A", "I", "L">>,
       <<"L", "O", "C", "A", "T", "I", "O", "N">>,
       <<"L", "I", "N", "K", "S">>,
       <<"S", "U", "M", "M", "A", "R", "Y">>,
       <<"S", "K", "I", "L", "L", "S">>,
       <<"E", "X", "P", "E", "R", "I", "E", "N", "C", "E">>,
       <<"E", "D", "U", "C", "A", "T", "I", "O", "N">>,
       <<"A", "W", "A", "R", "D", "S">>,
       <<"C", "E", "R", "T", "I", "F", "I", "C", "A", "T", "I", "O", "N", "S">>,
       <<"P", "U", "B", "L", "I", "C", "A", "T", "I", "O", "N", "S">> >>

\* the tokens with PHONES looked for in place of PHONE
placeholderPhoneMisspelt(t) ==
    IF t = 2 THEN placeholders[t] \o <<"S">> ELSE placeholders[t]

\* the token the t-th substitution looks for
placeholder(t) == placeholders[t]

\* data["contact"]["links"] and format_contact_links on it raise
contact_links_raises(doc) ==
    \/ ~Has(doc, "contact")
    \/ ~Has(doc["contact"], "links")
    \/ format_contact_links_raises(doc["contact"]["links"])

\* evaluating the argument of the t-th substitution raises
fill_raises(doc, t) ==
    CASE t = 1 -> ~Has(doc, "name")
      [] t = 2 -> ~Has(doc, "contact") \/ ~Has(doc["contact"], "phone")
      [] t = 3 -> ~Has(doc, "contact") \/ ~Has(doc["contact"], "email")
      [] t = 4 -> ~Has(doc, "contact") \/ ~Has(doc["contact"], "location")
      [] t = 5 -> FALSE
      [] t = 6 -> ~Has(doc, "summary")
      [] t = 7 -> ~Has(doc, "skills") \/ format_skills_raises(doc["skills"])
      [] t = 8 -> ~Has(doc, "experience")
                    \/ format_experience_raises(doc["experience"])
      [] t = 9 -> ~Has(doc, "education")
                    \/ format_education_raises(doc["education"])
      [] t = 10 -> ~Has(doc, "awards") \/ format_awards_raises(doc["awards"])
      [] t = 11 -> ~Has(doc, "certifications")
                     \/ format_certifications_raises(doc["certifications"])
      [] t = 12 -> ~Has(doc, "publications")
                     \/ format_publications_raises(doc["publications"])

\* the argument of the t-th substitution
fill_value(doc, t) ==
    CASE t = 1 -> escape_latex(doc["name"])
      [] t = 2 -> escape_latex(doc["contact"]["phone"])
      [] t = 3 -> escape_latex(doc["contact"]["email"])
      [] t = 4 -> escape_latex(doc["contact"]["location"])
      [] t = 5 -> format_contact_links(doc["contact"]["links"])
      [] t = 6 -> escape_latex(doc["summary"])
      [] t = 7 -> format_skills(doc["skills"])
      [] t = 8 -> format_experience(doc["experience"])
      [] t = 9 -> format_education(doc["education"])
      [] t = 10 -> format_awards(doc["awards"])
      [] t = 11 -> format_certifications(doc["certifications"])
      [] t = 12 -> format_publications(doc["publications"])

\* the auxiliary files compile_latex removes in its finally block
compile_aux_files(name) ==
    {name \o <<".", "a", "u", "x">>, name \o <<".", "l", "o", "g">>, name \o <<".", "o", "u", "t">>}

\* files_to_clean of main
files_to_clean(latex_base) ==
    {<<"t", "e", "m", "p", "l", "a", "t", "e">> \o ext :
        ext \in {<<".", "a", "u", "x">>, <<".", "l", "o", "g">>, <<".", "o", "u", "t">>, <<".", "p", "d", "f">>,
                 <<".", "f", "d", "b", "_", "l", "a", "t", "e", "x", "m", "k">>,
                 <<".", "f", "l", "s">>,
                 <<".", "s", "y", "n", "c", "t", "e", "x", ".", "g", "z">>}}
      \cup {latex_base \o <<".", "a", "u", "x">>, latex_base \o <<".", "l", "o", "g">>, latex_base \o <<".", "o", "u", "t">>}

\* what a pdflatex run leaves in OUTPUT_DIR
pdflatex_files(name, oc) ==
    CASE oc = "ok" -> {name \o <<".", "p", "d", "f">>, name \o <<".", "a", "u", "x">>, name \o <<".", "l", "o", "g">>, name \o <<".", "o", "u", "t">>}
      [] oc = "no_pdf" -> {name \o <<".", "a", "u", "x">>, name \o <<".", "l", "o", "g">>}
      [] oc = "nonzero" -> {name \o <<".", "l", "o", "g">>}
      [] oc = "raises" -> {}

\* a handler that reports the exception and lets the process end normally
ExitWithUnhandled(stage) ==
    /\ raisedAt' = stage
    /\ exitStatus' = 0
    /\ pc' = "exit"
    /\ UNCHANGED <<arg, result, inputFile, template, outDirOK, data, filled,
                   prev, k, val, tex, texBefore, files, latex_file, cwd,
                   current_dir, runs, outcome, pdfFile>>

\* main's handler: except Exception ... sys.exit(1)
Fail(stage) ==
    /\ raisedAt' = stage
    /\ exitStatus' = 1
    /\ pc' = "exit"
    /\ UNCHANGED <<arg, result, inputFile, template, outDirOK, data, filled,
                   prev, k, val, tex, texBefore, files, latex_file, cwd,
                   current_dir, runs, outcome, pdfFile>>

\* main: data = load_resume_data(yaml_file)
LoadData ==
    /\ pc = "main"
    /\ IF load_resume_data_raises(inputFile)
       THEN Fail("load")
       ELSE /\ data' = load_resume_data(inputFile)
            /\ pc' = "generate"
            /\ UNCHANGED <<arg, result, inputFile, template, outDirOK, filled,
                           prev, k, val, tex, texBefore, files, latex_file,
                           cwd, current_dir, runs, outcome, pdfFile, raisedAt,
                           exitStatus>>

\* a generate_latex_resume that opens the output file for writing before
\* the template is filled
OpenTemplateTruncatingOutput ==
    /\ pc = "generate"
    /\ IF output_name_raises(data) \/ template = NoFile
       THEN Fail("template")
       ELSE /\ latex_file' = default_output_name(data)
            /\ tex' = <<>>
            /\ pc' = "links"
            /\ UNCHANGED <<arg, result, inputFile, template, outDirOK, data,
                           filled, prev, k, val, texBefore, files, cwd,
                           current_dir, runs, outcome, pdfFile, raisedAt,
                           exitStatus>>

\* generate_latex_resume: the output name, then the template file is read
OpenTemplate ==
    /\ pc = "generate"
    /\ IF output_name_raises(data) \/ template = NoFile
       THEN Fail("template")
       ELSE /\ latex_file' = default_output_name(data)
            /\ pc' = "links"
            /\ UNCHANGED <<arg, result, inputFile, template, outDirOK, data,
                           filled, prev, k, val, tex, texBefore, files, cwd,
                           current_dir, runs, outcome, pdfFile, raisedAt,
                           exitStatus>>

\* generate_latex_resume: contact_links, then filled_template = template
ContactLinks ==
    /\ pc = "links"
    /\ IF contact_links_raises(data)
       THEN Fail("format")
       ELSE /\ filled' = template
            /\ prev' = template
            /\ pc' = "fill"
            /\ UNCHANGED <<arg, result, inputFile, template, outDirOK, data,
                           k, val, tex, texBefore, files, latex_file, cwd,
                           current_dir, runs, outcome, pdfFile, raisedAt,
                           exitStatus>>

\* generate_latex_resume: the next of the twelve
\* filled_template = filled_template.replace(TOKEN, value)
Substitute ==
    /\ pc = "fill"
    /\ IF fill_raises(data, k + 1)
       THEN Fail("fill")
       ELSE /\ prev' = filled
            /\ val' = fill_value(data, k + 1)
            /\ filled' = replace(filled, placeholder(k + 1),
                                 fill_value(data, k + 1))
            /\ k' = k + 1
            /\ pc' = IF k + 1 = Len(placeholders) THEN "write" ELSE "fill"
            /\ UNCHANGED <<arg, result, inputFile, template, outDirOK, data,
                           tex, texBefore, files, latex_file, cwd,
                           current_dir, runs, outcome, pdfFile, raisedAt,
                           exitStatus>>

\* generate_latex_resume: the filled template is written to output_path
WriteMarkup ==
    /\ pc = "write"
    /\ IF ~outDirOK
       THEN Fail("write")
       ELSE /\ tex' = filled
            /\ pc' = "compile"
            /\ UNCHANGED <<arg, result, inputFile, template, outDirOK, data,
                           filled, prev, k, val, texBefore, files, latex_file,
                           cwd, current_dir, runs, outcome, pdfFile, raisedAt,
                           exitStatus>>

\* compile_latex up to os.chdir(output_dir)
CompileEnter ==
    /\ pc = "compile"
    /\ current_dir' = cwd
    /\ cwd' = "OUTPUT_DIR"
    /\ pc' = "pdflatex"
    /\ UNCHANGED <<arg, result, inputFile, template, outDirOK, data, filled,
                   prev, k, val, tex, texBefore, files, latex_file, runs,
                   outcome, pdfFile, raisedAt, exitStatus>>

\* a compile_latex without the os.chdir(current_dir) of its finally block
RunPdflatexStayingInOutputDir ==
    /\ pc = "pdflatex"
    /\ \E oc \in {"ok", "nonzero", "no_pdf", "raises"} :
          LET name == output_name(data, splitext_base(latex_file))
          IN  /\ outcome' = oc
              /\ runs' = runs + 1
              /\ files' = (files \cup pdflatex_files(name, oc))
                             \ compile_aux_files(name)
              /\ tex' = IF latex_file \in compile_aux_files(name)
                        THEN NoFile ELSE tex
              /\ pdfFile' = IF oc = "ok" THEN name \o <<".", "p", "d", "f">> ELSE None
    /\ pc' = "finish"
    /\ UNCHANGED <<arg, result, inputFile, template, outDirOK, data, filled,
                   prev, k, val, texBefore, latex_file, cwd, current_dir,
                   raisedAt, exitStatus>>

\* compile_latex from subprocess.run on: the run and its checks, the finally
\* block (back to current_dir, auxiliary files removed), and the outer
\* except that turns an exception into the return value None
RunPdflatex ==
    /\ pc = "pdflatex"
    /\ \E oc \in {"ok", "nonzero", "no_pdf", "raises"} :
          LET name == output_name(data, splitext_base(latex_file))
          IN  /\ outcome' = oc
              /\ runs' = runs + 1
              /\ files' = (files \cup pdflatex_files(name, oc))
                             \ compile_aux_files(name)
              /\ tex' = IF latex_file \in compile_aux_files(name)
                        THEN NoFile ELSE tex
              /\ pdfFile' = IF oc = "ok" THEN name \o <<".", "p", "d", "f">> ELSE None
    /\ cwd' = current_dir
    /\ pc' = "finish"
    /\ UNCHANGED <<arg, result, inputFile, template, outDirOK, data, filled,
                   prev, k, val, texBefore, latex_file, current_dir, raisedAt,
                   exitStatus>>

\* main after compile_latex: the cleanup when a PDF was produced, then the
\* normal end of the process
Finish ==
    /\ pc = "finish"
    /\ IF pdfFile # None
       THEN /\ files' = files \ files_to_clean(splitext_base(latex_file))
            /\ tex' = IF latex_file \in files_to_clean(splitext_base(latex_file))
                      THEN NoFile ELSE tex
       ELSE UNCHANGED <<files, tex>>
    /\ exitStatus' = 0
    /\ pc' = "exit"
    /\ UNCHANGED <<arg, result, inputFile, template, outDirOK, data, filled,
                   prev, k, val, texBefore, latex_file, cwd, current_dir,
                   runs, outcome, pdfFile, raisedAt>>

----------------------------------------------------------------------------
(* The state of main while a single function is studied.                   *)

MainIdle ==
    /\ inputFile = [kind |-> "none"]
    /\ template = NoFile
    /\ outDirOK = TRUE
    /\ data = NoData
    /\ filled = <<>>
    /\ prev = <<>>
    /\ k = 0
    /\ val = <<>>
    /\ tex = NoFile
    /\ texBefore = NoFile
    /\ files = {}
    /\ latex_file = None
    /\ cwd = "start"
    /\ current_dir = None
    /\ runs = 0
    /\ outcome = "none"
    /\ pdfFile = None
    /\ raisedAt = "none"
    /\ exitStatus = -1

----------------------------------------------------------------------------
(* SpecEscape: escape_latex applied to every text over EscapeAlphabet of   *)
(* at most MaxLen characters, and to None.                                 *)

EscapeAlphabet == {"a", BS, "&", "%", "$", "#", "_", "{", "}", "~", "^"}

EscapeInputs == Strings(EscapeAlphabet, MaxLen) \cup {None}

InitEscape ==
    /\ pc = "call"
    /\ arg \in EscapeInputs
    /\ result = None
    /\ MainIdle

CallEscape ==
    /\ pc = "call"
    /\ result' = escape_latex(arg)
    /\ pc' = "done"
    /\ UNCHANGED <<arg, mainVars>>

NextEscape == CallEscape

SpecEscape == InitEscape /\ [][NextEscape]_vars

(* The claims about escape_latex.                                          *)

\* the number of backslashes immediately before position i of s
RECURSIVE BackslashesBefore(_, _)
BackslashesBefore(s, i) ==
    IF i > 1 /\ s[i - 1] = BS THEN 1 + BackslashesBefore(s, i - 1) ELSE 0

\* the literal-producing sequence of one character
LatexOf(c) ==
    CASE c \in {"&", "%", "$", "#", "_", "{", "}"} -> <<BS, c>>
      [] c = "~" -> <<"\\", "t", "e", "x", "t", "a", "s", "c", "i", "i", "t", "i", "l", "d", "e", "{", "}">>
      [] c = "^" -> <<"\\", "t", "e", "x", "t", "a", "s", "c", "i", "i", "c", "i", "r", "c", "u", "m", "{", "}">>
      [] OTHER -> <<c>>

\* C4: every & of the output of escape_latex is preceded by exactly one
\* backslash (so never by three or more), whatever number of backslashes
\* preceded it in the input, and an already-escaped ampersand is returned
\* unchanged.
C4_AmpersandEscapedOnce ==
    (pc = "done" /\ arg # None) =>
        /\ \A i \in 1..Len(result) :
              result[i] = "&" => BackslashesBefore(result, i) = 1
        /\ (arg = <<BS, "&">> => result = arg)

\* C5 as stated: the output of escape_latex is the concatenation of the
\* images of the input's characters, & always mapping to \& and backslash to
\* itself; None gives the empty string.
C5_CharByChar ==
    pc = "done" =>
        result = IF arg = None THEN <<>>
                 ELSE Concat([i \in 1..Len(arg) |-> LatexOf(arg[i])])

\* C5 as amended: the output of escape_latex is the concatenation of the
\* images of the input's characters, where an & that directly follows a
\* backslash maps to itself and every other & to \&; the braces of the tilde
\* and caret sequences stay unescaped, None gives the empty string and a
\* text with no reserved character is returned unchanged.
C5_CharByCharExceptEscapedAmpersand ==
    pc = "done" =>
        /\ result =
              IF arg = None THEN <<>>
              ELSE Concat([i \in 1..Len(arg) |->
                      IF arg[i] = "&" /\ i > 1 /\ arg[i - 1] = BS
                      THEN <<"&">> ELSE LatexOf(arg[i])])
        /\ (arg # None /\ (\A i \in 1..Len(arg) : arg[i] \in {"a", BS}))
              => result = arg

\* a text with a tilde, a brace and an ampersand has been escaped
C5_Witness ==
    /\ pc = "done"
    /\ arg # None
    /\ \E i, j, l \in 1..Len(arg) : arg[i] = "~" /\ arg[j] = "{" /\ arg[l] = "&"
    /\ result # arg

----------------------------------------------------------------------------
(* SpecLinks: the inline-link translation applied to descriptions made of  *)
(* at most MaxFrags fragments (plain text, links, a literal placeholder    *)
(* name) and to descriptions of up to MaxLinks different links.            *)

LinkFragments ==
    { <<"a", "_">>,
      <<" ">>,
      <<"[", "a", "]", "(", "u", ")">>,
      <<"[", "b", "_", "]", "(", "v", "&", ")">>,
      <<"\\", "&">>,
      HREFPLACEHOLDER \o <<"0">> }

RECURSIVE FragmentTexts(_)
FragmentTexts(n) ==
    IF n = 0 THEN {<<>>}
    ELSE LET shorter == FragmentTexts(n - 1)
         IN  shorter \cup {s \o f : s \in shorter, f \in LinkFragments}

\* "[t0](u) [t1](u) ... " with n links
RECURSIVE ManyLinks(_)
ManyLinks(n) ==
    IF n = 0 THEN <<>>
    ELSE ManyLinks(n - 1) \o <<"[", "t">> \o str(n - 1)
           \o <<"]", "(", "u", ")", " ">>

LinkInputs == FragmentTexts(MaxFrags) \cup {ManyLinks(n) : n \in 0..MaxLinks}

InitLinks ==
    /\ pc = "call"
    /\ arg \in LinkInputs
    /\ result = None
    /\ MainIdle

CallLinks ==
    /\ pc = "call"
    /\ result' = achievement_description(arg)
    /\ pc' = "done"
    /\ UNCHANGED <<arg, mainVars>>

NextLinks == CallLinks

SpecLinks == InitLinks /\ [][NextLinks]_vars

(* The claim about the inline-link translation.                            *)

\* the description with every [display-text](url) match, in order, turned
\* into \href{url}{display-text} and every stretch of text between matches
\* escaped, from position i
RECURSIVE LinksThenEscape(_, _)
LinksThenEscape(s, i) ==
    LET at == {j \in i..Len(s) : linkMatchAt(s, j).ok}
    IN  IF at = {} THEN escape_latex(SubSeq(s, i, Len(s)))
        ELSE LET mt == linkMatchAt(s, Least(at))
             IN  escape_latex(SubSeq(s, i, Least(at) - 1))
                   \o href(mt.url, mt.text) \o LinksThenEscape(s, mt.end + 1)

\* C1: the translated description holds, in match order, the command
\* \href{url}{display-text} of each [display-text](url) match, unchanged by
\* the escaping pass and restored from its own placeholder, and everything
\* outside the commands is escape_latex of the text that was there.
C1_LinksKeptTextEscaped ==
    pc = "done" => result = LinksThenEscape(arg, 1)

----------------------------------------------------------------------------
(* SpecAwards: format_awards applied to one award whose organization_detail *)
(* is any text over DetailAlphabet of at most MaxDetail characters (or is   *)
(* absent or None), with and without an organization_url.                   *)

DetailAlphabet == {"a", ":", " ", "_"}

BaseAward ==
    [title |-> <<"T">>, organization |-> <<"O", "&">>, location |-> <<"L">>,
     date |-> <<"2", "0">>]

AwardWith(rec, key, value) ==
    [x \in DOMAIN rec \cup {key} |-> IF x = key THEN value ELSE rec[x]]

AwardInputs ==
    LET details == Strings(DetailAlphabet, MaxDetail) \cup {None}
        withDetail == {AwardWith(BaseAward, "organization_detail", d) :
                          d \in details} \cup {BaseAward}
    IN  withDetail
          \cup {AwardWith(a, "organization_url", u) :
                  a \in withDetail, u \in {<<"u">>, <<>>}}

InitAwards ==
    /\ pc = "call"
    /\ arg \in {<<a>> : a \in AwardInputs}
    /\ result = None
    /\ MainIdle

CallAwards ==
    /\ pc = "call"
    /\ result' = format_awards(arg)
    /\ pc' = "done"
    /\ UNCHANGED <<arg, mainVars>>

NextAwards == CallAwards

SpecAwards == InitAwards /\ [][NextAwards]_vars

(* The claim about format_awards.                                          *)

Colons(d) == {i \in 1..Len(d) : d[i] = ":"}

\* y is x without its leading and trailing whitespace
IsTrimOf(y, x) ==
    /\ y = <<>> \/ (y[1] \notin Whitespace /\ y[Len(y)] \notin Whitespace)
    /\ \E i \in 0..Len(x) :
          /\ i + Len(y) <= Len(x)
          /\ SubSeq(x, i + 1, i + Len(y)) = y
          /\ \A j \in (1..i) \cup ((i + Len(y) + 1)..Len(x)) : x[j] \in Whitespace

\* the award's block shows, after the organization and the separator, a
\* hyperlink to the award's organization_url whose text is the trim of
\* the part of the escaped detail that follows colon number `colon`
LinkTextFollows(award, block, colon) ==
    LET d == escape_latex(award["organization_detail"])
    IN  \E i \in 1..(Len(d) + 1), j \in 0..Len(d) :
          /\ IsTrimOf(SubSeq(d, i, j), SubSeq(d, colon + 1, Len(d)))
          /\ Contains(block,
                <<"{">> \o escape_latex(award["organization"]) \o VERT
                  \o href(award["organization_url"], SubSeq(d, i, j))
                  \o <<"}", "{">>)

DetailOnlyAppended(award, block) ==
    (HasTruthy(award, "organization_detail") /\ ~HasTruthy(award, "organization_url"))
        => Contains(block,
              <<"{">> \o escape_latex(award["organization"]) \o VERT
                \o escape_latex(award["organization_detail"]) \o <<"}", "{">>)

\* C6 as stated: with a detail and a URL, the hyperlink text is the trimmed
\* part of the detail after its FIRST colon; with a detail only, the whole
\* escaped detail is appended.
C6_LinkTextAfterFirstColon ==
    pc = "done" =>
        /\ (/\ HasTruthy(arg[1], "organization_detail")
            /\ HasTruthy(arg[1], "organization_url")
            /\ Colons(arg[1]["organization_detail"]) # {})
              => LinkTextFollows(arg[1], result,
                    Least(Colons(escape_latex(arg[1]["organization_detail"]))))
        /\ DetailOnlyAppended(arg[1], result)

\* C6 as amended: with a detail and a URL, the hyperlink text is the trimmed
\* part of the escaped detail after its LAST colon (the whole trimmed detail
\* when it has no colon); with a detail only, the whole escaped detail is
\* appended without splitting.
C6_LinkTextAfterLastColon ==
    pc = "done" =>
        /\ (/\ HasTruthy(arg[1], "organization_detail")
            /\ HasTruthy(arg[1], "organization_url"))
              => LET cs == Colons(escape_latex(arg[1]["organization_detail"]))
                 IN  LinkTextFollows(arg[1], result,
                        IF cs = {} THEN 0
                        ELSE CHOOSE i \in cs : \A j \in cs : j <= i)
        /\ DetailOnlyAppended(arg[1], result)

\* an award with a URL and a detail of several colons has been formatted
C6_Witness ==
    /\ pc = "done"
    /\ HasTruthy(arg[1], "organization_detail")
    /\ HasTruthy(arg[1], "organization_url")
    /\ Cardinality(Colons(arg[1]["organization_detail"])) >= 2
    /\ arg[1]["organization_detail"][Len(arg[1]["organization_detail"])] = "_"

----------------------------------------------------------------------------
(* SpecPubs: format_publications applied to every sequence of at most      *)
(* MaxPubs entries drawn from four publications.                           *)

BasePub ==
    [authors |-> <<"A">>, title |-> <<"T", "_">>, venue |-> <<"V">>,
     year |-> <<"2", "1">>, url |-> <<"u">>]

PubSet ==
    { BasePub,
      [BasePub EXCEPT !["title"] = <<"S">>],
      [BasePub EXCEPT !["authors"] = <<"M", ".", " ", "G", "h", "o", "r", "b", "a", "n", "d", "o", "o", "s", "t">>],
      [BasePub EXCEPT !["year"] = <<"2", "2">>] }

RECURSIVE PubLists(_)
PubLists(n) ==
    IF n = 0 THEN {<<>>}
    ELSE LET shorter == PubLists(n - 1)
         IN  shorter \cup {Append(l, x) : l \in shorter, x \in PubSet}

InitPubs ==
    /\ pc = "call"
    /\ arg \in PubLists(MaxPubs)
    /\ result = None
    /\ MainIdle

CallPubs ==
    /\ pc = "call"
    /\ result' = format_publications(arg)
    /\ pc' = "done"
    /\ UNCHANGED <<arg, mainVars>>

NextPubs == CallPubs

SpecPubs == InitPubs /\ [][NextPubs]_vars

(* The claim about format_publications.                                    *)

\* C7: the output of format_publications is the entries' \item lines in
\* input order with the spacing directive \vspace{5pt} after each of the
\* first n-1 and not after the last (n-1 directives; the empty string for no
\* entry), also when entries have equal field values.
C7_SpacingBetweenEntries ==
    pc = "done" =>
        result = join(VSPACE, [i \in 1..Len(arg) |-> publication_item(arg[i])])

----------------------------------------------------------------------------
(* SpecMain: main run on each input file of InputFiles (missing,           *)
(* unparsable, or holding one of the documents of Docs), with each         *)
(* template of Templates (or none), and with OUTPUT_DIR present or absent   *)
(* and an older markup file there or not.                                   *)

BaseDoc ==
    [name |->
        <<"a", "d", "a", " ", "l", "o", "v", "e", "l", "a", "c", "e">>,
     contact |->
        [phone |-> <<"+", "1", " ", "2">>, email |-> <<"a", "_", "b", "@", "c", ".", "d">>, location |-> <<"X", " ", "&", " ", "Y">>, links |-> <<[name |-> <<"g", "h">>, url |-> <<"h", "t", "t", "p", ":", "/", "/", "g", "/", "h">>], [name |-> <<"i", "n">>, url |-> <<"h", "t", "t", "p", ":", "/", "/", "l", "/", "i">>]>>],
     summary |->
        <<"R", "&", "D", ":", " ", "1", "0", "0", "%", " ", "~", "o", "k">>,
     skills |->
        <<[category |-> <<"L", "a", "n", "g">>, items |-> <<"C", " ", "&", " ", "C", "#">>]>>,
     experience |->
        <<[title |-> <<"D", "e", "v">>, location |-> <<"Z">>, company |-> <<"C", "o">>, date_start |-> <<"2", "0", "1", "9">>, date_end |-> <<"2", "0", "2", "0">>, company_url |-> <<"h", "t", "t", "p", ":", "/", "/", "c", "o">>, company_description |-> <<"a", " ", "s", "h", "o", "p">>, achievements |-> <<[name |-> <<"W", "i", "n">>, description |-> <<"s", "e", "e", " ", "[", "p", "_", "1", "]", "(", "h", "t", "t", "p", ":", "/", "/", "p", "?", "a", "=", "1", "&", "b", "=", "2", ")", " ", "&", " ", "m", "o", "r", "e", "_">>]>>]>>,
     education |->
        <<[degree |-> <<"B", "S", "c">>, institution |-> <<"U">>, location |-> <<"W">>, date_start |-> <<"2", "0", "1", "0">>, date_end |-> <<"2", "0", "1", "4">>]>>,
     awards |->
        <<[title |-> <<"P", "r", "i", "z", "e">>, organization |-> <<"O", "r", "g">>, location |-> <<"V">>, date |-> <<"2", "0", "1", "5">>, organization_detail |-> <<"R", "a", "n", "k", ":", " ", "1", "s", "t">>, organization_url |-> <<"h", "t", "t", "p", ":", "/", "/", "r">>]>>,
     certifications |->
        <<[title |-> <<"C", "e", "r", "t">>, organization |-> <<"O", "r", "g">>, date |-> <<"2", "0", "1", "6">>, url |-> <<"h", "t", "t", "p", ":", "/", "/", "c">>]>>,
     publications |->
        <<[authors |-> <<"M", ".", " ", "G", "h", "o", "r", "b", "a", "n", "d", "o", "o", "s", "t", ",", " ", "B", ".", " ", "C">>, title |-> <<"O", "n", " ", "x", "_", "y">>, venue |-> <<"J">>, year |-> <<"2", "0", "2", "0">>, url |-> <<"h", "t", "t", "p", ":", "/", "/", "d", "/", "1">>], [authors |-> <<"B", ".", " ", "C">>, title |-> <<"O", "f", " ", "z">>, venue |-> <<"K">>, year |-> <<"2", "0", "2", "1">>, url |-> <<"h", "t", "t", "p", ":", "/", "/", "d", "/", "2">>]>>]

\* the dict rec without its key
Without(rec, key) == [x \in DOMAIN rec \ {key} |-> rec[x]]

TopLevelKeys ==
    <<"name", "contact", "summary", "skills", "experience", "education",
      "awards", "certifications", "publications">>

ContactKeys == <<"phone", "email", "location", "links">>

DocSingleName == [BaseDoc EXCEPT !["name"] = <<"a", "d", "a">>]

DocNameNone == [BaseDoc EXCEPT !["name"] = None]

DocSummaryNamesEmail == [BaseDoc EXCEPT !["summary"] = <<"E", "M", "A", "I", "L", " ", "m", "e">>]

DocSummaryNamesExperience == [BaseDoc EXCEPT !["summary"] = <<"m", "y", " ", "E", "X", "P", "E", "R", "I", "E", "N", "C", "E">>]

DocPhoneNone == [BaseDoc EXCEPT !["contact"]["phone"] = None]

DocEmptySections ==
    [BaseDoc EXCEPT !["contact"]["links"] = <<>>, !["skills"] = <<>>,
                    !["experience"] = <<>>, !["education"] = <<>>,
                    !["awards"] = <<>>, !["certifications"] = <<>>,
                    !["publications"] = <<>>]

DocExperienceWithoutTitle ==
    [BaseDoc EXCEPT !["experience"] = <<Without(BaseDoc["experience"][1], "title")>>]

DocTwoEqualPublications ==
    [BaseDoc EXCEPT !["publications"] =
        <<BaseDoc["publications"][2], BaseDoc["publications"][2]>>]

DocAwardWithoutUrl ==
    [BaseDoc EXCEPT !["awards"] = <<Without(BaseDoc["awards"][1], "organization_url")>>]

DocOnlyRequired ==
    [x \in {"name", "contact", "summary", "skills", "experience"} |-> BaseDoc[x]]

Docs ==
    <<BaseDoc>>
      \o [i \in 1..Len(TopLevelKeys) |-> Without(BaseDoc, TopLevelKeys[i])]
      \o [i \in 1..Len(ContactKeys) |->
            [BaseDoc EXCEPT !["contact"] = Without(BaseDoc["contact"], ContactKeys[i])]]
      \o <<DocSingleName, DocNameNone, DocSummaryNamesEmail,
           DocSummaryNamesExperience, DocPhoneNone, DocEmptySections,
           DocExperienceWithoutTitle, DocTwoEqualPublications,
           DocAwardWithoutUrl, DocOnlyRequired, NoData>>

\* a template with each of the twelve placeholders once, on a line of its own
TemplateFull ==
    <<"\\", "n", "a", "m", "e", "{", "N", "A", "M", "E",
      "}", "\n", "%", " ", "p", "h", "o", "\n", "P", "H",
      "O", "N", "E", "\n", "%", " ", "e", "m", "a", "\n",
      "E", "M", "A", "I", "L", "\n", "%", " ", "l", "o",
      "c", "\n", "L", "O", "C", "A", "T", "I", "O", "N",
      "\n", "%", " ", "l", "i", "n", "\n", "L", "I", "N",
      "K", "S", "\n", "%", " ", "s", "u", "m", "\n", "S",
      "U", "M", "M", "A", "R", "Y", "\n", "%", " ", "s",
      "k", "i", "\n", "S", "K", "I", "L", "L", "S", "\n",
      "%", " ", "e", "x", "p", "\n", "E", "X", "P", "E",
      "R", "I", "E", "N", "C", "E", "\n", "%", " ", "e",
      "d", "u", "\n", "E", "D", "U", "C", "A", "T", "I",
      "O", "N", "\n", "%", " ", "a", "w", "a", "\n", "A",
      "W", "A", "R", "D", "S", "\n", "%", " ", "c", "e",
      "r", "\n", "C", "E", "R", "T", "I", "F", "I", "C",
      "A", "T", "I", "O", "N", "S", "\n", "%", " ", "p",
      "u", "b", "\n", "P", "U", "B", "L", "I", "C", "A",
      "T", "I", "O", "N", "S", "\n">>

\* a template that names NAME twice
TemplateNameTwice ==
    <<"N", "A", "M", "E", "|", "N", "A", "M", "E", " ",
      "(", "P", "H", "O", "N", "E", ")", "\n">>

\* a template in which PHONE stands inside the letters of NAME
TemplateJoinedTokens ==
    <<"N", "A", "P", "H", "O", "N", "E", "M", "E", "\n">>

Templates == <<TemplateFull, TemplateNameTwice, TemplateJoinedTokens, NoFile>>

\* the markup file an earlier run left in OUTPUT_DIR
OldTex == <<"o", "l", "d">>

InputFiles ==
    <<[kind |-> "missing", yaml |-> "ok", data |-> NoData],
      [kind |-> "plain", yaml |-> "bad", data |-> NoData],
      [kind |-> "frontmatter", yaml |-> "bad", data |-> NoData],
      [kind |-> "frontmatter", yaml |-> "ok", data |-> BaseDoc]>>
      \o [i \in 1..Len(Docs) |-> [kind |-> "plain", yaml |-> "ok", data |-> Docs[i]]]

InitMain ==
    /\ pc = "main"
    /\ arg = None
    /\ result = None
    /\ \E i \in 1..Len(InputFiles) : inputFile = InputFiles[i]
    /\ \E i \in 1..Len(Templates) : template = Templates[i]
    /\ \E dir \in {<<TRUE, NoFile>>, <<TRUE, OldTex>>, <<FALSE, NoFile>>} :
          /\ outDirOK = dir[1]
          /\ tex = dir[2]
          /\ texBefore = dir[2]
    /\ data = NoData
    /\ filled = <<>>
    /\ prev = <<>>
    /\ k = 0
    /\ val = <<>>
    /\ files = {}
    /\ latex_file = None
    /\ cwd = "start"
    /\ current_dir = None
    /\ runs = 0
    /\ outcome = "none"
    /\ pdfFile = None
    /\ raisedAt = "none"
    /\ exitStatus = -1

NextMain ==
    \/ LoadData
    \/ OpenTemplate
    \/ ContactLinks
    \/ Substitute
    \/ WriteMarkup
    \/ CompileEnter
    \/ RunPdflatex
    \/ Finish

SpecMain == InitMain /\ [][NextMain]_vars

(* The claims about generate_latex_resume and main.                        *)

\* the placeholder tokens, in the order the claims list them
TokenNames ==
    << <<"N", "A", "M", "E">>, <<"P", "H", "O", "N", "E">>,
       <<"E", "M", "A", "I", "L">>,
       <<"L", "O", "C", "A", "T", "I", "O", "N">>,
       <<"L", "I", "N", "K", "S">>, <<"S", "U", "M", "M", "A", "R", "Y">>,
       <<"S", "K", "I", "L", "L", "S">>,
       <<"E", "X", "P", "E", "R", "I", "E", "N", "C", "E">>,
       <<"E", "D", "U", "C", "A", "T", "I", "O", "N">>,
       <<"A", "W", "A", "R", "D", "S">>,
       <<"C", "E", "R", "T", "I", "F", "I", "C", "A", "T", "I", "O", "N", "S">>,
       <<"P", "U", "B", "L", "I", "C", "A", "T", "I", "O", "N", "S">> >>

NoTokenIn(s) == \A t \in 1..Len(TokenNames) : ~Contains(s, TokenNames[t])

Capitals == {UPPER[i] : i \in 1..Len(UPPER)}

\* every maximal run of capital letters of tpl is a token or holds no token
TokensDelimited(tpl) ==
    \A a \in 1..Len(tpl) :
        (tpl[a] \in Capitals /\ (a = 1 \/ tpl[a - 1] \notin Capitals)) =>
            LET stops == {b \in a..Len(tpl) : tpl[b] \notin Capitals}
                run == SubSeq(tpl, a, IF stops = {} THEN Len(tpl)
                                      ELSE Least(stops) - 1)
            IN  (\E t \in 1..Len(TokenNames) : run = TokenNames[t])
                  \/ NoTokenIn(run)

\* no value substituted for a token holds a token
ValuesTokenFree(doc) ==
    \A t \in 1..Len(TokenNames) : NoTokenIn(fill_value(doc, t))

\* C2 as stated: once the twelve substitutions are done on a template whose
\* tokens stand apart, no placeholder token is left in the filled string,
\* whatever the field values are.
C2_NoTokenLeft ==
    (pc = "write" /\ TokensDelimited(template)) => NoTokenIn(filled)

\* C2: once the twelve substitutions are done, no placeholder token is left
\* in the filled string, provided that every run of capital letters of the
\* template is a token or holds none and that no substituted value holds a
\* token.
C2_NoTokenLeftWhenValuesTokenFree ==
    (pc = "write" /\ TokensDelimited(template) /\ ValuesTokenFree(data))
        => NoTokenIn(filled)

C2_Witness ==
    /\ pc = "write"
    /\ template = TemplateFull
    /\ data = BaseDoc
    /\ TokensDelimited(template)
    /\ ValuesTokenFree(data)
    /\ filled # template

\* the start positions of the occurrences of tok in s from position i on,
\* leftmost first and without overlap
RECURSIVE Occurrences(_, _, _)
Occurrences(s, tok, i) ==
    LET at == {j \in i..Len(s) : StartsWithAt(s, j, tok)}
    IN  IF at = {} THEN {}
        ELSE {Least(at)} \cup Occurrences(s, tok, Least(at) + Len(tok))

\* out is s with the occurrences of tok that start at the positions occ
\* replaced by v and every other character kept, in order
IsReplacement(s, tok, v, occ, out) ==
    LET grow == Len(v) - Len(tok)
        before(p) == Cardinality({o \in occ : o < p})
        covered(p) == \E o \in occ : o <= p /\ p < o + Len(tok)
    IN  /\ Len(out) = Len(s) + Cardinality(occ) * grow
        /\ \A p \in 1..Len(s) :
              ~covered(p) => out[p + before(p) * grow] = s[p]
        /\ \A o \in occ :
              \A j \in 1..Len(v) : out[o + before(o) * grow + j - 1] = v[j]

\* C3 as stated: each substitution replaces only the first occurrence of its
\* token in the working string and leaves later occurrences as they are; a
\* token that does not occur leaves the string unchanged.
C3_OnlyFirstOccurrenceReplaced ==
    k >= 1 =>
        LET first == Occurrences(prev, TokenNames[k], 1)
                        \cap {Find(prev, TokenNames[k], 1)}
        IN  IsReplacement(prev, TokenNames[k], val, first, filled)

\* C3: each substitution replaces every occurrence of its token in the
\* working string (leftmost first, without overlap) by the value and keeps
\* every other character; a token that does not occur leaves the string
\* unchanged, and the substitution does not raise for that.
C3_EveryOccurrenceReplaced ==
    k >= 1 =>
        /\ IsReplacement(prev, TokenNames[k], val,
                         Occurrences(prev, TokenNames[k], 1), filled)
        /\ (~Contains(prev, TokenNames[k]) => filled = prev)

C3_Witness ==
    /\ k = 1
    /\ Cardinality(Occurrences(prev, TokenNames[1], 1)) = 2
    /\ ~Contains(filled, TokenNames[1])

\* C8: when loading the document, reading the template, formatting a
\* section or filling the template raises, the run has ended with exit
\* status 1, the markup file is as it was when the run started (absent or
\* with its old content), and the compiler has not been invoked.
C8_FatalErrorLeavesNoOutput ==
    raisedAt # "none" =>
        /\ pc = "exit"
        /\ exitStatus = 1
        /\ tex = texBefore
        /\ runs = 0
        /\ files = {}

C8_Witness ==
    /\ raisedAt = "fill"
    /\ k >= 1
    /\ texBefore = OldTex
    /\ exitStatus = 1

LacksField(doc) ==
    \/ doc = NoData
    \/ \E i \in 1..Len(TopLevelKeys) : ~Has(doc, TopLevelKeys[i])
    \/ \E i \in 1..Len(ContactKeys) : ~Has(doc["contact"], ContactKeys[i])

\* a section of doc holds a record that lacks a key its formatter reads
RecordLacksKey(doc) ==
    \/ format_contact_links_raises(doc["contact"]["links"])
    \/ format_skills_raises(doc["skills"])
    \/ format_experience_raises(doc["experience"])
    \/ format_education_raises(doc["education"])
    \/ format_awards_raises(doc["awards"])
    \/ format_certifications_raises(doc["certifications"])
    \/ format_publications_raises(doc["publications"])

HasRequiredFields(doc) ==
    /\ doc # NoData
    /\ \A key \in {"name", "contact", "summary", "skills", "experience"} :
          Has(doc, key)
    /\ Has(doc["contact"], "links")

LacksOptionalSection(doc) ==
    \E key \in {"education", "awards", "certifications", "publications"} :
        ~Has(doc, key)

Loaded == pc # "main" /\ raisedAt # "load"

====
